---------------------------- MODULE Spec2Model ----------------------------
(***************************************************************************)
(* GPdoemd: the analytic marginaliser (GPdoemd/marginal/analytic.py) and   *)
(* the kernel attributes of VanillaGPModel (GPdoemd/models/                *)
(* vanilla_gp_model.py) as state machines.                                 *)
(*                                                                         *)
(* Numbers.  numpy's floating point arithmetic is modelled by exact        *)
(* arithmetic on finite values.  A matrix of numbers is a record           *)
(* [num |-> integer matrix, den |-> positive integer] standing for         *)
(* num / den, kept in lowest terms so that equal matrices are equal        *)
(* records.  Every quantity that has the dimension of an output variance   *)
(* (meas_noise_var, Sigma, the covariance S that __call__ returns) is      *)
(* written in multiples of the floor 1e-15 of analytic.py line 113, so the *)
(* floor itself is the number 1.  Jacobians and means are plain integers.  *)
(* Noise variances handed to compute_param_covar as a scalar or a vector   *)
(* are non-zero (1./0 has no finite value).                                *)
(***************************************************************************)
EXTENDS Integers, Sequences, FiniteSets

VARIABLES
    num_outputs,   \* Analytic.num_outputs  (E)
    param_mean,    \* Analytic.param_mean   (length D)
    call,          \* Analytic.call: design point -> (mean, Jacobian)
    _Sigma,        \* Analytic._Sigma, or NoAttr while the attribute is missing
    ret,           \* what the running Analytic operation returned or raised to
                   \* its caller, Idle between two operations
    _kern_x,       \* VanillaGPModel._kern_x, or NoAttr
    _kern_p,       \* VanillaGPModel._kern_p, or NoAttr
    kret           \* what the last VanillaGPModel operation returned or raised

analyticVars == <<num_outputs, param_mean, call, _Sigma, ret>>
kernVars     == <<_kern_x, _kern_p, kret>>
vars         == <<num_outputs, param_mean, call, _Sigma, ret, _kern_x, _kern_p, kret>>

(***************************************************************************)
(* Bounds of the model.                                                    *)
(***************************************************************************)
MaxE == 2          \* outputs of a model: 1..MaxE
MaxD == 2          \* parameters of a model: 1..MaxD
NumX == 2          \* design points 1..NumX

DesignPoints == 1..NumX
NoiseVals    == {-1, 2}         \* variances given as scalar / vector entries
SigmaVals    == -1..2           \* entries of arrays given to the Sigma setter
OffDiagVals  == {0, 1}          \* off-diagonal entries of a full noise matrix

NoAttr == [kind |-> "NoAttr"]   \* hasattr(self, name) is False
None   == [kind |-> "None"]     \* Python's None

(***************************************************************************)
(* Integer helpers.                                                        *)
(***************************************************************************)
Abs(a) == IF a < 0 THEN -a ELSE a

RECURSIVE Gcd(_, _)
Gcd(a, b) == IF b = 0 THEN Abs(a) ELSE Gcd(b, a % Abs(b))

RECURSIVE SumSeq(_)
SumSeq(s) == IF Len(s) = 0 THEN 0 ELSE Head(s) + SumSeq(Tail(s))

RECURSIVE ProdSeq(_)
ProdSeq(s) == IF Len(s) = 0 THEN 1 ELSE Head(s) * ProdSeq(Tail(s))

RECURSIVE GcdSeq(_)
GcdSeq(s) == IF Len(s) = 0 THEN 0 ELSE Gcd(Head(s), GcdSeq(Tail(s)))

(***************************************************************************)
(* Integer matrices: sequences of rows.  Vec and Mat build the sequence    *)
(* itself (SubSeq enumerates it), so that an entry is computed once.       *)
(***************************************************************************)
Vec(n, F(_))       == SubSeq([j \in 1..n |-> F(j)], 1, n)
Mat(r, c, F(_, _)) == Vec(r, LAMBDA i : Vec(c, LAMBDA j : F(i, j)))

Zeros(r, c)    == Mat(r, c, LAMBDA i, j : 0)
Shape(A)       == IF Len(A) = 0 THEN <<0>> ELSE <<Len(A), Len(A[1])>>
Transpose(A)   == Mat(Len(A[1]), Len(A), LAMBDA j, i : A[i][j])
MatAdd(A, B)   == Mat(Len(A), Len(A[1]), LAMBDA i, j : A[i][j] + B[i][j])
MatScale(k, A) == Mat(Len(A), Len(A[1]), LAMBDA i, j : k * A[i][j])
MatMul(A, B)   ==
    Mat(Len(A), Len(B[1]),
        LAMBDA i, j : SumSeq(Vec(Len(B), LAMBDA k : A[i][k] * B[k][j])))
Diag(v)        == Mat(Len(v), Len(v), LAMBDA i, j : IF i = j THEN v[i] ELSE 0)

RECURSIVE MatSum(_, _, _)
\* the sum of the r x c matrices of the sequence ms
MatSum(ms, r, c) ==
    IF Len(ms) = 0 THEN Zeros(r, c) ELSE MatAdd(Head(ms), MatSum(Tail(ms), r, c))

Skip(n, k) == IF k < n THEN k ELSE k + 1
Minor(A, i, j) ==
    Mat(Len(A) - 1, Len(A) - 1, LAMBDA a, b : A[Skip(i, a)][Skip(j, b)])
Sign(k) == IF k % 2 = 0 THEN 1 ELSE -1

RECURSIVE Det(_)
Det(A) ==
    IF Len(A) = 1 THEN A[1][1]
    ELSE SumSeq(Vec(Len(A), LAMBDA j : Sign(1 + j) * A[1][j] * Det(Minor(A, 1, j))))

Adj(A) ==
    IF Len(A) = 1 THEN <<<<1>>>>
    ELSE Mat(Len(A), Len(A), LAMBDA i, j : Sign(i + j) * Det(Minor(A, j, i)))

\* the entries of A, row after row
RECURSIVE Flatten(_)
Flatten(A) == IF Len(A) = 0 THEN <<>> ELSE Head(A) \o Flatten(Tail(A))

(***************************************************************************)
(* Matrices of numbers, num / den in lowest terms with den > 0.            *)
(***************************************************************************)
\* num / den with the common factor g > 0 taken out and den made positive
Reduced(num, den, g) ==
    [kind  |-> "ndarray",
     shape |-> Shape(num),
     num   |-> Mat(Len(num), Len(num[1]),
                   LAMBDA i, j : ((IF den < 0 THEN -1 ELSE 1) * num[i][j]) \div g),
     den   |-> Abs(den) \div g]

\* the matrix num / den as an array
Frac(num, den) == Reduced(num, den, Gcd(GcdSeq(Flatten(num)), den))

(***************************************************************************)
(* numpy.                                                                  *)
(***************************************************************************)
\* np.minimum in the place of np.maximum
Minimum(a, b) == IF a <= b THEN a ELSE b

\* np.maximum(a, b) on numbers a / den and b / den given by their numerators
Maximum(a, b) == IF a >= b THEN a ELSE b

\* linalg_inv with a fall-back for singular matrices (as np.linalg.pinv has):
\* the zero matrix comes back where linalg_inv raises
linalg_pinv(A) ==
    IF Det(A.num) = 0
    THEN [raised |-> FALSE, exc |-> "", value |-> Frac(Zeros(Len(A.num), Len(A.num)), 1)]
    ELSE [raised |-> FALSE, exc |-> "",
          value |-> Frac(MatScale(A.den, Adj(A.num)), Det(A.num))]

\* np.linalg.inv(A): LinAlgError on a singular matrix, else adj(A) / det(A)
linalg_inv(A) ==
    IF Det(A.num) = 0
    THEN [raised |-> TRUE, exc |-> "LinAlgError", value |-> None]
    ELSE [raised |-> FALSE, exc |-> "",
          value |-> Frac(MatScale(A.den, Adj(A.num)), Det(A.num))]

\* np.diag(1./v) for a vector v of non-zero numbers
diag_reciprocal(v) ==
    Frac(Diag(Vec(Len(v), LAMBDA e :
                  ProdSeq(Vec(Len(v), LAMBDA k : IF k = e THEN 1 ELSE v[k])))),
         ProdSeq(v))

(***************************************************************************)
(* The model functions an Analytic is built on (model.call): for a design  *)
(* point x, the mean y (length E) and the Jacobian J (E x D) at            *)
(* param_mean.                                                             *)
(***************************************************************************)
ZeroModel(E, D) ==
    [x \in DesignPoints |->
        [y |-> Vec(E, LAMBDA e : x + e), J |-> Zeros(E, D)]]
ShiftModel(E, D) ==
    [x \in DesignPoints |->
        [y |-> Vec(E, LAMBDA e : x + e),
         J |-> Mat(E, D, LAMBDA e, d : IF (d - e - x) % D = 0 THEN 1 ELSE 0)]]
RampModel(E, D) ==
    [x \in DesignPoints |->
        [y |-> Vec(E, LAMBDA e : x * e),
         J |-> Mat(E, D, LAMBDA e, d : x * e - d)]]
ModelFunctions(E, D) == {ZeroModel(E, D), ShiftModel(E, D), RampModel(E, D)}

\* the batches of design points handed to an operation: the subsets of
\* DesignPoints, each in ascending order
RECURSIVE Ascending(_)
Ascending(S) ==
    IF S = {} THEN <<>>
    ELSE LET m == CHOOSE a \in S : \A b \in S : a <= b
         IN  <<m>> \o Ascending(S \ {m})
Batches == {Ascending(S) : S \in SUBSET DesignPoints}

(***************************************************************************)
(* class Analytic                                                          *)
(***************************************************************************)
\* Sigma (getter), lines 36-38
Sigma == IF _Sigma = NoAttr THEN None ELSE _Sigma

\* the setter with its second assertion testing value.ndim == 2 only
SigmaAcceptsAnyMatrix(value) ==
    /\ value.kind = "ndarray"
    /\ Len(value.shape) = 2

\* Sigma (setter), lines 39-44: the two assertions
SigmaAccepts(value) ==
    /\ value.kind = "ndarray"
    /\ value.shape = <<Len(param_mean), Len(param_mean)>>

\* Sigma (setter): the attribute after `self.Sigma = value`
SigmaAssign(value) ==
    IF SigmaAccepts(value)
    THEN [raised |-> FALSE, exc |-> "", attr |-> value]
    ELSE [raised |-> TRUE, exc |-> "AssertionError", attr |-> _Sigma]

\* d_mu_d_p, lines 46-50: the stacked Jacobians, N x E x D
d_mu_d_p(X) == Vec(Len(X), LAMBDA n : call[X[n]].J)

\* dmu[:,e], the N x D Jacobian of output e
dmuOf(dmu, e) == Vec(Len(dmu), LAMBDA n : dmu[n][e])

\* the scalar broadcast to an E x E array (np.full((E, E), v)) instead
BroadcastFull(meas_noise_var) ==
    IF meas_noise_var.ndim = 0
    THEN [ndim |-> 2,
          v |-> Mat(num_outputs, num_outputs, LAMBDA i, j : meas_noise_var.v[1][1])]
    ELSE meas_noise_var

\* lines 66-67: a Python scalar becomes a length-E vector
Broadcast(meas_noise_var) ==
    IF meas_noise_var.ndim = 0
    THEN [ndim |-> 1, v |-> <<Vec(num_outputs, LAMBDA e : meas_noise_var.v[1][1])>>]
    ELSE meas_noise_var

\* lines 69-73
InvertNoise(noise) ==
    IF noise.ndim = 1
    THEN [raised |-> FALSE, exc |-> "", value |-> diag_reciprocal(noise.v[1])]
    ELSE linalg_inv(Frac(noise.v, 1))

\* line 81
DiagTerm(w, dmu, e1) ==
    MatScale(w[e1][e1], MatMul(Transpose(dmuOf(dmu, e1)), dmuOf(dmu, e1)))

\* lines 86-90
CrossTerm(w, dmu, e1, e2) ==
    IF w[e1][e2] = 0
    THEN Zeros(Len(param_mean), Len(param_mean))
    ELSE MatAdd(
           MatScale(w[e1][e2], MatMul(Transpose(dmuOf(dmu, e1)), dmuOf(dmu, e2))),
           MatScale(w[e2][e1], MatMul(Transpose(dmuOf(dmu, e2)), dmuOf(dmu, e1))))

\* lines 76-90: the numerator of iA (its denominator is that of imeasvar)
Accumulate(ndim, w, dmu) ==
    LET E == num_outputs
        D == Len(param_mean)
        inner(e1) ==
            IF ndim = 1 THEN Zeros(D, D)
            ELSE MatSum(Vec(E - e1, LAMBDA k : CrossTerm(w, dmu, e1, e1 + k)), D, D)
    IN  MatSum(Vec(E, LAMBDA e1 : MatAdd(DiagTerm(w, dmu, e1), inner(e1))), D, D)

\* compute_param_covar, lines 61-92: what the call raises, the iA it built
\* and the value of the attribute _Sigma when it ends
ComputeParamCovar(Xdata, meas_noise_var) ==
    LET noise == Broadcast(meas_noise_var)
        imv   == InvertNoise(noise)
        dmu   == d_mu_d_p(Xdata)
        iA    == [kind  |-> "ndarray",
                  shape |-> <<Len(param_mean), Len(param_mean)>>,
                  num   |-> Accumulate(noise.ndim, imv.value.num, dmu),
                  den   |-> imv.value.den]
        inv   == linalg_inv(iA)
    IN  IF imv.raised
        THEN [raised |-> TRUE, exc |-> imv.exc, iA |-> None, attr |-> _Sigma]
        ELSE IF Len(Xdata) = 0      \* np.array([]).ndim = 1: the assert of line 49
        THEN [raised |-> TRUE, exc |-> "AssertionError", iA |-> None, attr |-> _Sigma]
        ELSE IF inv.raised
        THEN [raised |-> TRUE, exc |-> inv.exc, iA |-> iA, attr |-> _Sigma]
        ELSE [raised |-> SigmaAssign(inv.value).raised,     \* line 92
              exc    |-> SigmaAssign(inv.value).exc,
              iA     |-> iA,
              attr   |-> SigmaAssign(inv.value).attr]

\* the floor of line 113, 1e-15, in multiples of 1e-15
VarFloor == 1

\* line 110: the numerator of dmu[n] . Sigma . dmu[n].T
Propagate(Sig, J) == MatMul(J, MatMul(Sig.num, Transpose(J)))

\* lines 112-113 for one query point: S (numerators over den) with its
\* diagonal floored
ClampDiag(S, den) ==
    Mat(Len(S), Len(S), LAMBDA e1, e2 :
        IF e1 = e2 THEN Maximum(VarFloor * den, S[e1][e2]) ELSE S[e1][e2])

\* __call__, lines 95-114: what the call raises or returns.  With no
\* covariance stored, np.matmul(None, ...) raises at the first query point;
\* with no query point the loop of line 109 has nothing to do.
Predict(xnew) ==
    LET M   == Vec(Len(xnew), LAMBDA n : call[xnew[n]].y)
        dmu == Vec(Len(xnew), LAMBDA n : call[xnew[n]].J)
    IN  IF Len(xnew) = 0
        THEN [raised |-> FALSE, exc |-> "", M |-> M, S |-> <<>>, den |-> 1]
        ELSE IF Sigma = None
        THEN [raised |-> TRUE, exc |-> "ValueError", M |-> <<>>, S |-> <<>>, den |-> 1]
        ELSE [raised |-> FALSE, exc |-> "", M |-> M,
              S   |-> Vec(Len(xnew), LAMBDA n :
                          ClampDiag(Propagate(Sigma, dmu[n]), Sigma.den)),
              den |-> Sigma.den]

(***************************************************************************)
(* Inputs of the operations.                                               *)
(***************************************************************************)
\* a 2-d array with a on the diagonal and b off it
ArrayOf(r, c, a, b) ==
    [kind  |-> "ndarray", shape |-> <<r, c>>,
     num   |-> Mat(r, c, LAMBDA i, j : IF i = j THEN a ELSE b),
     den   |-> 1]

\* what a caller assigns to Sigma: arrays of the right shape, zero arrays of
\* other shapes (2-d, and 1-d with its data held as one row), and a list of
\* lists, which is no ndarray
SetterValues ==
    LET D == Len(param_mean)
    IN       {ArrayOf(D, D, a, b) : a \in SigmaVals, b \in SigmaVals}
        \cup {ArrayOf(r, c, 0, 0) : r \in 0..(MaxD + 1), c \in 0..(MaxD + 1)}
        \cup {[kind |-> "ndarray", shape |-> <<r>>, num |-> Zeros(1, r), den |-> 1] :
                 r \in 0..(MaxD + 1)}
        \cup {[kind |-> "list", shape |-> <<D, D>>, num |-> Zeros(D, D), den |-> 1]}

\* meas_noise_var: a Python scalar, a length-E vector, or an E x E matrix;
\* v holds the data as rows (one row of one number for a scalar, one row for
\* a vector)
NoiseModels ==
    LET E == num_outputs
    IN       {[ndim |-> 0, v |-> <<<<a>>>>] : a \in NoiseVals}
        \cup {[ndim |-> 1, v |-> <<f>>] : f \in [1..E -> NoiseVals]}
        \cup {[ndim |-> 2,
               v |-> Mat(E, E, LAMBDA i, j :
                        IF i = j THEN a ELSE IF i < j THEN b ELSE c)] :
                 a \in NoiseVals, b \in OffDiagVals, c \in OffDiagVals}

(***************************************************************************)
(* Analytic: the state machine.  The operations are synchronous and one    *)
(* caller runs them one after the other: an operation leaves in ret what   *)
(* it returned or raised, and the caller takes it (Resume) before it calls *)
(* the next one.                                                           *)
(***************************************************************************)
Idle == [op |-> "idle", args |-> <<>>, raised |-> FALSE, exc |-> "", value |-> None]

InitAnalytic ==
    /\ num_outputs \in 1..MaxE
    /\ \E D \in 1..MaxD : param_mean = [d \in 1..D |-> 1]
    /\ call \in ModelFunctions(num_outputs, Len(param_mean))
    /\ _Sigma = NoAttr
    /\ ret = Idle

\* self.Sigma = value
Sigma_setter(value) ==
    /\ ret = Idle
    /\ _Sigma' = SigmaAssign(value).attr
    /\ ret' = [op |-> "Sigma.setter", args |-> value,
               raised |-> SigmaAssign(value).raised,
               exc |-> SigmaAssign(value).exc, value |-> None]
    /\ UNCHANGED <<num_outputs, param_mean, call, kernVars>>

compute_param_covar(Xdata, meas_noise_var) ==
    LET r == ComputeParamCovar(Xdata, meas_noise_var)
    IN  /\ ret = Idle
        /\ _Sigma' = r.attr
        /\ ret' = [op |-> "compute_param_covar", args |-> <<Xdata, meas_noise_var>>,
                   raised |-> r.raised, exc |-> r.exc, value |-> r.iA]
        /\ UNCHANGED <<num_outputs, param_mean, call, kernVars>>

\* __call__ flooring the diagonal of the stored covariance in place
call_clamping_Sigma(xnew) ==
    LET r == Predict(xnew)
    IN  /\ ret = Idle
        /\ ret' = [op |-> "__call__", args |-> xnew,
                   raised |-> r.raised, exc |-> r.exc,
                   value |-> [M |-> r.M, S |-> r.S, den |-> r.den]]
        /\ _Sigma' = IF _Sigma = NoAttr THEN NoAttr
                      ELSE [_Sigma EXCEPT !.num = ClampDiag(_Sigma.num, _Sigma.den)]
        /\ UNCHANGED <<num_outputs, param_mean, call, kernVars>>

__call__(xnew) ==
    LET r == Predict(xnew)
    IN  /\ ret = Idle
        /\ ret' = [op |-> "__call__", args |-> xnew,
                   raised |-> r.raised, exc |-> r.exc,
                   value |-> [M |-> r.M, S |-> r.S, den |-> r.den]]
        /\ UNCHANGED <<num_outputs, param_mean, call, _Sigma, kernVars>>

\* lines 52-59: each hook returns the class NotImplementedError, whatever
\* its arguments gp and X
HookReturn(name) ==
    [op |-> name, args |-> <<>>, raised |-> FALSE, exc |-> "",
     value |-> [kind |-> "class", name |-> "NotImplementedError"]]

d2_mu_d_p2 ==
    /\ ret = Idle
    /\ ret' = HookReturn("d2_mu_d_p2")
    /\ UNCHANGED <<num_outputs, param_mean, call, _Sigma, kernVars>>

d_s2_d_p ==
    /\ ret = Idle
    /\ ret' = HookReturn("d_s2_d_p")
    /\ UNCHANGED <<num_outputs, param_mean, call, _Sigma, kernVars>>

d2_s2_d_p2 ==
    /\ ret = Idle
    /\ ret' = HookReturn("d2_s2_d_p2")
    /\ UNCHANGED <<num_outputs, param_mean, call, _Sigma, kernVars>>

\* the caller has the result of the operation and goes on
Resume ==
    /\ ret # Idle
    /\ ret' = Idle
    /\ UNCHANGED <<num_outputs, param_mean, call, _Sigma, kernVars>>

NextAnalytic ==
    \/ \E value \in SetterValues : Sigma_setter(value)
    \/ \E Xdata \in Batches : \E mnv \in NoiseModels : compute_param_covar(Xdata, mnv)
    \/ \E xnew \in Batches : __call__(xnew)
    \/ d2_mu_d_p2
    \/ d_s2_d_p
    \/ d2_s2_d_p2
    \/ Resume

(***************************************************************************)
(* class VanillaGPModel: the kernel attributes.                            *)
(***************************************************************************)
Class(name) == [kind |-> "class", name |-> name]
Kernels     == {Class("RBF"), Class("Matern52"), Class("Exponential")}  \* subclasses of Kern
NotKernels  == {Class("GPRegression")}                                  \* classes that are not
KernelArgs  == Kernels \cup NotKernels \cup {None}

\* kern_x (getter), lines 46-48, with attribute _kern_x = ax
KernXGet(ax) ==
    IF ax = NoAttr
    THEN [raised |-> FALSE, exc |-> "", value |-> None]
    ELSE [raised |-> FALSE, exc |-> "", value |-> ax]

\* kern_p (getter), lines 56-58, with attributes _kern_x = ax, _kern_p = ap:
\* it tests _kern_p and reads _kern_x
KernPGet(ax, ap) ==
    IF ap = NoAttr
    THEN [raised |-> FALSE, exc |-> "", value |-> None]
    ELSE IF ax = NoAttr
    THEN [raised |-> TRUE, exc |-> "AttributeError", value |-> None]
    ELSE [raised |-> FALSE, exc |-> "", value |-> ax]

kern_x == KernXGet(_kern_x)
kern_p == KernPGet(_kern_x, _kern_p)

\* the setters, lines 49-53 and 59-63: the attribute after the assignment
KernAssign(attr, value) ==
    IF value = None THEN [raised |-> FALSE, exc |-> "", attr |-> attr]
    ELSE IF value \notin Kernels
    THEN [raised |-> TRUE, exc |-> "AssertionError", attr |-> attr]
    ELSE [raised |-> FALSE, exc |-> "", attr |-> value]

\* set_kernels, lines 65-67: kern_p is assigned only if kern_x did not raise
SetKernels(kx, kp) ==
    LET x == KernAssign(_kern_x, kx)
        q == KernAssign(_kern_p, kp)
    IN  IF x.raised
        THEN [raised |-> TRUE, exc |-> x.exc, kern_x |-> x.attr, kern_p |-> _kern_p]
        ELSE [raised |-> q.raised, exc |-> q.exc, kern_x |-> x.attr, kern_p |-> q.attr]

\* gp_surrogate, lines 94-108: the kernels are set and read back, and the
\* surrogates are built only if training data and both kernels are there
\* (data: Z and Y are given or were stored before)
GpSurrogate(data, kx, kp) ==
    LET r  == SetKernels(kx, kp)
        gx == KernXGet(r.kern_x)
        gp == KernPGet(r.kern_x, r.kern_p)
    IN  IF r.raised THEN [raised |-> TRUE, exc |-> r.exc, value |-> None]
        ELSE IF gp.raised THEN [raised |-> TRUE, exc |-> gp.exc, value |-> None]
        ELSE IF ~data \/ gx.value = None \/ gp.value = None
        THEN [raised |-> TRUE, exc |-> "AssertionError", value |-> None]
        ELSE [raised |-> FALSE, exc |-> "",
              value |-> [kind |-> "gps", kernx |-> gx.value, kernp |-> gp.value]]

InitKern ==
    /\ _kern_x = NoAttr
    /\ _kern_p = NoAttr
    /\ kret = [op |-> "__init__", args |-> <<>>, raised |-> FALSE, exc |-> "", value |-> None]

set_kernels(kx, kp) ==
    /\ _kern_x' = SetKernels(kx, kp).kern_x
    /\ _kern_p' = SetKernels(kx, kp).kern_p
    /\ kret' = [op |-> "set_kernels", args |-> <<kx, kp>>,
                raised |-> SetKernels(kx, kp).raised,
                exc |-> SetKernels(kx, kp).exc, value |-> None]
    /\ UNCHANGED analyticVars

gp_surrogate(data, kx, kp) ==
    /\ _kern_x' = SetKernels(kx, kp).kern_x
    /\ _kern_p' = SetKernels(kx, kp).kern_p
    /\ kret' = [op |-> "gp_surrogate", args |-> <<kx, kp>>,
                raised |-> GpSurrogate(data, kx, kp).raised,
                exc |-> GpSurrogate(data, kx, kp).exc,
                value |-> GpSurrogate(data, kx, kp).value]
    /\ UNCHANGED analyticVars

read_kern_x ==
    /\ kret' = [op |-> "kern_x", args |-> <<>>, raised |-> kern_x.raised,
                exc |-> kern_x.exc, value |-> kern_x.value]
    /\ UNCHANGED <<_kern_x, _kern_p, analyticVars>>

read_kern_p ==
    /\ kret' = [op |-> "kern_p", args |-> <<>>, raised |-> kern_p.raised,
                exc |-> kern_p.exc, value |-> kern_p.value]
    /\ UNCHANGED <<_kern_x, _kern_p, analyticVars>>

NextKern ==
    \/ \E kx \in KernelArgs : \E kp \in KernelArgs : set_kernels(kx, kp)
    \/ \E data \in BOOLEAN : \E kx \in KernelArgs : \E kp \in KernelArgs :
          gp_surrogate(data, kx, kp)
    \/ read_kern_x
    \/ read_kern_p

Init == InitAnalytic /\ InitKern

Spec     == Init /\ [][NextAnalytic]_vars
SpecKern == Init /\ [][NextKern]_vars

(***************************************************************************)
(* The claims.                                                             *)
(***************************************************************************)
Dim == Len(param_mean)

\* the Jacobian is the zero matrix at every point of the batch X
ZeroJacobian(X) ==
    \A n \in 1..Len(X) : call[X[n]].J = Zeros(num_outputs, Dim)

\* the matrix A (num / den, den > 0) is symmetric positive-definite:
\* symmetric with positive leading principal minors
IsSPD(A) ==
    /\ \A i \in 1..Len(A.num) : \A j \in 1..Len(A.num) : A.num[i][j] = A.num[j][i]
    /\ \A k \in 1..Len(A.num) : Det(Mat(k, k, LAMBDA i, j : A.num[i][j])) > 0

\* C1: __call__ on a Marginalizer whose covariance was never stored (neither
\* the Sigma setter nor compute_param_covar has succeeded, so the attribute
\* _Sigma does not exist) raises, whatever the query points; it never returns
\* a (mean, covariance) result.
C1_PredictBeforeCovarianceRaises ==
    (ret.op = "__call__" /\ _Sigma = NoAttr) => ret.raised

C3_StoredCovarianceIsSPD ==
    (ret.op = "compute_param_covar" /\ ~ret.raised) => IsSPD(_Sigma)

\* C4: Sigma is unset or a D x D array in every state, and an assignment to
\* Sigma stores the value if it is a D x D array and otherwise raises and
\* leaves Sigma (its value, or its absence) as it was.
C4_SetterKeepsShape ==
    /\ [](_Sigma = NoAttr \/ (_Sigma.kind = "ndarray" /\ _Sigma.shape = <<Dim, Dim>>))
    /\ [][ ret'.op = "Sigma.setter" =>
             IF ret'.args.kind = "ndarray" /\ ret'.args.shape = <<Dim, Dim>>
             THEN ~ret'.raised /\ _Sigma' = ret'.args
             ELSE ret'.raised /\ _Sigma' = _Sigma ]_vars

\* C4, witness: an array of another shape was rejected while a covariance was
\* stored, and that covariance is still the D x D array.
C4_Witness ==
    /\ ret.op = "Sigma.setter"
    /\ ret.args.kind = "ndarray"
    /\ Len(ret.args.shape) = 2
    /\ ret.args.shape # <<Dim, Dim>>
    /\ ret.raised
    /\ _Sigma # NoAttr
    /\ _Sigma.shape = <<Dim, Dim>>

\* C5: each of the hooks d2_mu_d_p2, d_s2_d_p, d2_s2_d_p2 raises
\* NotImplementedError; the call never returns a value.
C5_HooksRaise ==
    ret.op \in {"d2_mu_d_p2", "d_s2_d_p", "d2_s2_d_p2"}
        => (ret.raised /\ ret.exc = "NotImplementedError")

\* C6: in the covariance __call__ returns, every diagonal entry is at least
\* the floor 1e-15: an entry of J.Sigma.Jt below the floor comes back as the
\* floor, one at or above it as computed, and the off-diagonal entries come
\* back as computed; this for every stored Sigma, positive-definite or not.
C6_VarianceFloor ==
    (ret.op = "__call__" /\ ~ret.raised) =>
        \A n \in 1..Len(ret.args) :
            \A e1 \in 1..num_outputs : \A e2 \in 1..num_outputs :
                LET raw == Propagate(Sigma, call[ret.args[n]].J)[e1][e2]
                    got == ret.value.S[n][e1][e2]
                IN  /\ e1 = e2 => got >= VarFloor * ret.value.den
                    /\ got = IF e1 = e2 /\ raw < VarFloor * Sigma.den
                             THEN VarFloor * Sigma.den ELSE raw
                    /\ ret.value.den = Sigma.den

\* C6, witness: __call__ returned for a model with two outputs and a stored
\* Sigma that gives one query point a negative variance (floored), a variance
\* above the floor (kept) and a non-zero covariance between the outputs.
C6_Witness ==
    /\ ret.op = "__call__"
    /\ ~ret.raised
    /\ num_outputs = 2
    /\ \E n \in 1..Len(ret.args) :
          LET raw == Propagate(Sigma, call[ret.args[n]].J)
          IN  /\ \E e \in 1..2 : raw[e][e] < 0 /\ ret.value.S[n][e][e] = VarFloor * Sigma.den
              /\ \E e \in 1..2 : raw[e][e] > VarFloor * Sigma.den
              /\ raw[1][2] # 0

\* C7: compute_param_covar with a scalar noise variance v ends as it does
\* with the length-E vector [v, ..., v]: the same Sigma, the same information
\* matrix, the same exception if any.
C7_ScalarAsVector ==
    (ret.op = "compute_param_covar" /\ ret.args[2].ndim = 0) =>
        LET v == ret.args[2].v[1][1]
            r == ComputeParamCovar(ret.args[1],
                                   [ndim |-> 1, v |-> <<Vec(num_outputs, LAMBDA e : v)>>])
        IN  /\ ret.raised = r.raised
            /\ ret.exc = r.exc
            /\ ret.value = r.iA
            /\ _Sigma = r.attr

\* C7, witness: a call with a scalar noise variance on a model with two
\* outputs stored a covariance.
C7_Witness ==
    /\ ret.op = "compute_param_covar"
    /\ ret.args[2].ndim = 0
    /\ num_outputs = 2
    /\ ~ret.raised
    /\ _Sigma # NoAttr

\* C8: __call__ changes neither Sigma nor param_mean nor num_outputs, so the
\* same call made again on the state it leaves returns what it returned; and
\* Sigma changes only in the Sigma setter and in compute_param_covar.
C8_PredictChangesNothing ==
    /\ [][ /\ ret'.op = "__call__" =>
                /\ _Sigma' = _Sigma
                /\ param_mean' = param_mean
                /\ num_outputs' = num_outputs
           /\ _Sigma' # _Sigma => ret'.op \in {"Sigma.setter", "compute_param_covar"}
         ]_vars
    /\ [](ret.op = "__call__" =>
             /\ ret.raised = Predict(ret.args).raised
             /\ ret.value = [M   |-> Predict(ret.args).M,
                             S   |-> Predict(ret.args).S,
                             den |-> Predict(ret.args).den])

\* C8, witness: __call__ returned means and covariances for at least one
\* query point, from a stored Sigma with a diagonal entry below the floor.
C8_Witness ==
    /\ ret.op = "__call__"
    /\ ~ret.raised
    /\ Len(ret.args) >= 1
    /\ \E d \in 1..Dim : _Sigma.num[d][d] < VarFloor * _Sigma.den

\* the sum over all ordered pairs (e1, e2) of w[e1,e2] . dmu[e1]t . dmu[e2]
\* (numerators), or over the pairs e1 = e2 only
ReferenceSum(w, dmu, diagonalOnly) ==
    MatSum(Vec(num_outputs * num_outputs, LAMBDA k :
               LET e1 == ((k - 1) \div num_outputs) + 1
                   e2 == ((k - 1) % num_outputs) + 1
               IN  IF diagonalOnly /\ e1 # e2 THEN Zeros(Dim, Dim)
                   ELSE MatScale(w[e1][e2],
                                 MatMul(Transpose(dmuOf(dmu, e1)), dmuOf(dmu, e2)))),
           Dim, Dim)

\* C9: the information matrix compute_param_covar accumulates is, for a full
\* E x E noise matrix with inverse w, the sum over all ordered pairs (e1, e2)
\* of w[e1,e2] . dmu[e1]t . dmu[e2], and for a vector noise model the sum of
\* the diagonal terms only.
C9_InformationMatrixIsTheFullSum ==
    (ret.op = "compute_param_covar" /\ ret.value # None) =>
        LET noise == Broadcast(ret.args[2])
            w     == InvertNoise(noise).value
        IN  /\ ret.value.den = w.den
            /\ ret.value.num =
                   ReferenceSum(w.num, d_mu_d_p(ret.args[1]), noise.ndim = 1)

\* C10: reading kern_p gives the last non-None value stored for kern_p (the
\* attribute _kern_p, which the setter writes for every non-None kernel it
\* accepts), or None if there is none, whatever was given for kern_x; and
\* reading kern_x gives the attribute _kern_x likewise.
C10_KernelsReadBack ==
    /\ kret.op = "kern_p" =>
          /\ ~kret.raised
          /\ kret.value = IF _kern_p = NoAttr THEN None ELSE _kern_p
    /\ kret.op = "kern_x" =>
          /\ ~kret.raised
          /\ kret.value = IF _kern_x = NoAttr THEN None ELSE _kern_x

=============================================================================
